---------------------------- MODULE Spec2Model ----------------------------
(***************************************************************************)
(* A model of pipeline/src/datadownload.py: the fuel-consumption data      *)
(* pipeline (catalog fetch, CSV retrieval, column normalisation, keyword   *)
(* decoding, union concatenation, DuckDB persistence).                     *)
(*                                                                         *)
(* Python strings are modelled as sequences of one-character strings, so   *)
(* that lower(), replace(), re.sub() and the `in` substring test are       *)
(* computed character by character.                                        *)
(***************************************************************************)
EXTENDS Integers, Sequences, FiniteSets, TLC

VARIABLES
    pc,               \* position of the running script / function under check
    \* ---- the script's module-level state (lines 370-507)
    catalog,          \* rows of data_entries_english: <<name, url>> pairs
    catalog_outcome,  \* what requests.get(url_open_canada) did in this run
    data_entries_english, \* Unbound, NoneValue or [rows |-> the catalog rows]
    item,             \* index of the catalog row the for loop is at
    fuel_based_df,    \* list of frames in the loop, one frame after line 473
    hybrid_df,        \* frame, or Unbound before the first hybrid dataset
    electric_df,      \* frame, or Unbound before the first electric dataset
    all_vehicles_df,  \* frame, or Unbound before line 497
    db,               \* the DuckDB file: table name -> frame or Absent
    con,              \* "none", "open" or "closed"
    exit_status,      \* Running, 0 or 1
    uncaught,         \* the exception that ended the process, or "none"
    stdout,           \* sequence of printed diagnostics
    downloaded,       \* urls handed to requests.get by extract_raw_data
    run,              \* 1 for the first run of the script, 2 for a re-run
    prev_db,          \* the DuckDB file as the previous run left it
    \* ---- convert_model_key_words(s, dictionary)
    s,
    group,
    \* ---- rename_fuel_data_columns(df)
    df,
    final_df,
    \* ---- concatenate_dataframes(df1, df2, df3)
    df1,
    df2,
    df3,
    concat_df

scriptVars == <<catalog, catalog_outcome, data_entries_english, item,
                fuel_based_df, hybrid_df, electric_df, all_vehicles_df, db, con,
                exit_status, uncaught, stdout, downloaded, run, prev_db>>
keywordVars == <<s, group>>
renameVars == <<df, final_df>>
concatVars == <<df1, df2, df3, concat_df>>
vars == <<pc, scriptVars, keywordVars, renameVars, concatVars>>

----------------------------------------------------------------------------
(* Python str operations *)

UpperLetters == <<"A","B","C","D","E","F","G","H","I","J","K","L","M",
                  "N","O","P","Q","R","S","T","U","V","W","X","Y","Z">>
LowerLetters == <<"a","b","c","d","e","f","g","h","i","j","k","l","m",
                  "n","o","p","q","r","s","t","u","v","w","x","y","z">>
Digits == {"0","1","2","3","4","5","6","7","8","9"}

LowerChar(c) ==
    IF \E i \in 1..Len(UpperLetters) : UpperLetters[i] = c
    THEN LowerLetters[CHOOSE i \in 1..Len(UpperLetters) : UpperLetters[i] = c]
    ELSE c

\* str.lower()
Lower(str) == [i \in 1..Len(str) |-> LowerChar(str[i])]

\* str.startswith(prefix, i - 1)
StartsAt(str, i, prefix) ==
    /\ i + Len(prefix) - 1 <= Len(str)
    /\ SubSeq(str, i, i + Len(prefix) - 1) = prefix

\* `sub in str`
Contains(str, sub) == \E i \in 1..(Len(str) - Len(sub) + 1) : StartsAt(str, i, sub)

RECURSIVE ReplaceFrom(_, _, _, _)
ReplaceFrom(str, i, old, new) ==
    IF i > Len(str) THEN <<>>
    ELSE IF StartsAt(str, i, old)
         THEN new \o ReplaceFrom(str, i + Len(old), old, new)
         ELSE <<str[i]>> \o ReplaceFrom(str, i + 1, old, new)

\* str.replace(old, new) for a non-empty old
Replace(str, old, new) == ReplaceFrom(str, 1, old, new)

----------------------------------------------------------------------------
(* Values shared by the frames of the model *)

Null == [null |-> TRUE]          \* NaN / None in a cell
Unbound == [unbound |-> TRUE]    \* a Python name not assigned yet
Absent == [absent |-> TRUE]      \* a table the database file does not hold
NoneValue == [none |-> TRUE]     \* Python's None
Running == -1                    \* exit_status of a process still running

\* A frame is [cols |-> sequence of column names, rows |-> sequence of rows],
\* a row being a function from the frame's column names to cell values.
Frame(cols, rows) == [cols |-> cols, rows |-> rows]
ColSet(frame) == {frame.cols[i] : i \in 1..Len(frame.cols)}

----------------------------------------------------------------------------
(* convert_model_key_words and the drivetrain keyword table *)

HighOutputText == "High output engine that             provides more power than the standard             engine of the same size"

\* dict iteration order is insertion order
model_dict == <<
    <<<<"4", "w", "d", "/", "4", "X", "4">>, "Four-wheel drive">>,
    <<<<"a", "w", "d">>, "All-wheel drive">>,
    <<<<"f", "f", "v">>, "Flexible-fuel vehicle">>,
    <<<<"s", "w", "b">>, "Short wheelbase">>,
    <<<<"l", "w", "b">>, "Long wheelbase">>,
    <<<<"e", "w", "b">>, "Extended wheelbase">>,
    <<<<"c", "n", "g">>, "Compressed natural gas">>,
    <<<<"n", "g", "v">>, "Natural gas vehicle">>,
    <<<<"#">>, HighOutputText>> >>

RECURSIVE KeyWordScan(_, _, _)
KeyWordScan(text, dictionary, k) ==
    IF k > Len(dictionary) THEN "unspecified"
    ELSE IF Contains(text, dictionary[k][1]) THEN dictionary[k][2]
         ELSE KeyWordScan(text, dictionary, k + 1)

convert_model_key_words(text, dictionary) == KeyWordScan(text, dictionary, 1)

MaxFragments == 2

ModelFragments == { <<"s", "u", "v", " ">>, <<"4", "W", "D", "/", "4", "X", "4">>, <<"4", "w", "d", "/", "4", "x", "4">>, <<"A", "W", "D">>, <<"F", "F", "V">>,
                    <<"#">>, <<" ", "s", "w", "b">>, <<"x">> }

RECURSIVE Joined(_)
Joined(n) ==
    IF n = 0 THEN {<<>>}
    ELSE Joined(n - 1) \cup {t \o f : t \in Joined(n - 1), f \in ModelFragments}

ModelTexts == Joined(MaxFragments)

IdleScript ==
    /\ catalog = <<>> /\ catalog_outcome = "none" /\ item = 0
    /\ data_entries_english = Unbound /\ uncaught = "none"
    /\ fuel_based_df = <<>>
    /\ hybrid_df = Unbound /\ electric_df = Unbound /\ all_vehicles_df = Unbound
    /\ db = <<>> /\ con = "none" /\ exit_status = Running /\ stdout = <<>>
    /\ downloaded = <<>> /\ run = 1 /\ prev_db = <<>>
IdleKeywords == s = <<>> /\ group = ""
IdleRename == df = Unbound /\ final_df = Unbound
IdleConcat == df1 = Unbound /\ df2 = Unbound /\ df3 = Unbound /\ concat_df = Unbound

InitKeywords ==
    /\ pc = "model_lower"
    /\ s \in ModelTexts
    /\ group = ""
    /\ IdleScript /\ IdleRename /\ IdleConcat

\* line 243: final_df["model.1_"] = final_df["model.1_"].str.lower()
LowerModel ==
    /\ pc = "model_lower"
    /\ s' = Lower(s)
    /\ pc' = "type_of_wheel_drive"
    /\ UNCHANGED <<group, scriptVars, renameVars, concatVars>>

\* lines 467-469: .apply(lambda x: convert_model_key_words(x, model_dict))
ApplyKeyWords ==
    /\ pc = "type_of_wheel_drive"
    /\ group' = convert_model_key_words(s, model_dict)
    /\ pc' = "decoded"
    /\ UNCHANGED <<s, scriptVars, renameVars, concatVars>>

NextKeywords == LowerModel \/ ApplyKeyWords

SpecKeywords == InitKeywords /\ [][NextKeywords]_vars

\* C3: the lowercased model text "suv 4wd/4x4" decodes to "Four-wheel drive";
\* the first key of model_dict (in iteration order) that is a substring of the
\* text determines the result; text holding no key decodes to "unspecified".
C3_DrivetrainDecoding ==
    pc = "decoded" =>
        /\ (s = <<"s", "u", "v", " ", "4", "w", "d", "/", "4", "x", "4">> => group = "Four-wheel drive")
        /\ \A k \in 1..Len(model_dict) :
              ( /\ Contains(s, model_dict[k][1])
                /\ \A j \in 1..(k - 1) : ~Contains(s, model_dict[j][1]) )
              => group = model_dict[k][2]
        /\ ((\A k \in 1..Len(model_dict) : ~Contains(s, model_dict[k][1]))
              => group = "unspecified")

----------------------------------------------------------------------------
(* concatenate_dataframes *)

\* the orders list(a_set) can come out in: str hashing is seeded per process
Orders(S) ==
    {o \in [1..Cardinality(S) -> S] : \A i, j \in 1..Cardinality(S) : o[i] = o[j] => i = j}

\* the row of a frame re-indexed over a wider column set, missing cells NaN
Reindexed(row, cols) == [c \in cols |-> IF c \in DOMAIN row THEN row[c] ELSE Null]

\* pd.concat([a, b], ignore_index=True): columns in order of first appearance,
\* the rows of a followed by the rows of b
pd_concat(a, b) ==
    LET new == SelectSeq(b.cols, LAMBDA c : c \notin ColSet(a))
        cols == a.cols \o new
        all == ColSet(a) \cup ColSet(b)
    IN  Frame(cols, [i \in 1..Len(a.rows) |-> Reindexed(a.rows[i], all)]
                    \o [i \in 1..Len(b.rows) |-> Reindexed(b.rows[i], all)])

\* lines 323-325: for column in column_names: if column not in df.columns
RECURSIVE FillMissing(_, _)
FillMissing(frame, order) ==
    IF order = <<>> THEN frame
    ELSE IF Head(order) \in ColSet(frame) THEN FillMissing(frame, Tail(order))
         ELSE FillMissing(
                Frame(Append(frame.cols, Head(order)),
                      [i \in 1..Len(frame.rows) |->
                          Reindexed(frame.rows[i], ColSet(frame) \cup {Head(order)})]),
                Tail(order))

\* lines 318-320 with the second and first frame in each other's place
concatenate_dataframes_Swapped(a, b, c, order) ==
    FillMissing(pd_concat(pd_concat(pd_concat(Frame(order, <<>>), b), a), c), order)

\* lines 315-325 without line 320
concatenate_dataframes_TwoOnly(a, b, c, order) ==
    FillMissing(pd_concat(pd_concat(Frame(order, <<>>), a), b), order)

\* lines 309-327; order: the iteration order of the set column_names in this
\* process

concatenate_dataframes(a, b, c, order) ==
    FillMissing(pd_concat(pd_concat(pd_concat(Frame(order, <<>>), a), b), c), order)

column_names(a, b, c) == ColSet(a) \cup ColSet(b) \cup ColSet(c)

MaxFrameRows == 2

ColumnPool == <<"model", "motor_kw", "range1_km">>

\* the sub-sequences of ColumnPool: the column lists of the input frames
ColumnLists ==
    {SelectSeq(ColumnPool, LAMBDA c : c \in S) :
        S \in SUBSET {ColumnPool[i] : i \in 1..Len(ColumnPool)}}

\* a frame of table t with n rows, every cell tagged by table, row and column
TaggedFrame(t, cols, n) ==
    Frame(cols, [i \in 1..n |-> [c \in {cols[k] : k \in 1..Len(cols)} |-> [table |-> t, row |-> i, col |-> c]]])

InputFrames(t) == {TaggedFrame(t, cols, n) : cols \in ColumnLists, n \in 0..MaxFrameRows}

InitConcat ==
    /\ pc = "concat_call"
    /\ df1 \in InputFrames("df1")
    /\ df2 \in InputFrames("df2")
    /\ df3 \in InputFrames("df3")
    /\ concat_df = Unbound
    /\ IdleScript /\ IdleKeywords /\ IdleRename

\* lines 309-327
ConcatenateDataframes ==
    /\ pc = "concat_call"
    /\ \E order \in Orders(column_names(df1, df2, df3)) :
          concat_df' = concatenate_dataframes(df1, df2, df3, order)
    /\ pc' = "concatenated"
    /\ UNCHANGED <<df1, df2, df3, scriptVars, keywordVars, renameVars>>

NextConcat == ConcatenateDataframes

SpecConcat == InitConcat /\ [][NextConcat]_vars

\* the cells of an output row that belong to the columns of its source frame
Projected(row, frame) == [c \in ColSet(frame) |-> row[c]]

Occurrences(frame, i) ==
    Cardinality({j \in 1..Len(concat_df.rows) :
                    /\ Projected(concat_df.rows[j], frame) = frame.rows[i]
                    /\ \A c \in DOMAIN concat_df.rows[j] \ ColSet(frame) :
                          concat_df.rows[j][c] = Null})

\* C1: the output of concatenate_dataframes has rows(df1) + rows(df2) + rows(df3)
\* rows and as many columns as the union of the three column-name sets; every
\* input row occurs exactly once in the output.
C1_RowAndColumnCount ==
    pc = "concatenated" =>
        /\ Len(concat_df.rows) = Len(df1.rows) + Len(df2.rows) + Len(df3.rows)
        /\ Len(concat_df.cols) = Cardinality(column_names(df1, df2, df3))
        /\ ColSet(concat_df) = column_names(df1, df2, df3)
        /\ \A frame \in {df1, df2, df3} :
              frame.cols # <<>> =>
                 \A i \in 1..Len(frame.rows) : Occurrences(frame, i) = 1

C1_Witness ==
    /\ pc = "concatenated"
    /\ Len(df1.rows) = 2 /\ Len(df2.rows) = 1 /\ Len(df3.rows) = 2
    /\ df1.cols = <<"model">> /\ df2.cols = <<"model", "motor_kw">>
    /\ df3.cols = <<"motor_kw", "range1_km">>
    /\ Len(concat_df.rows) = 5 /\ Len(concat_df.cols) = 3

\* the source frame and source row index of output row j
SourceOf(j) ==
    IF j <= Len(df1.rows) THEN <<df1, j>>
    ELSE IF j <= Len(df1.rows) + Len(df2.rows) THEN <<df2, j - Len(df1.rows)>>
         ELSE <<df3, j - Len(df1.rows) - Len(df2.rows)>>

\* C2: the output rows are the df1 (fuel-only) rows, then the df2 (hybrid) rows,
\* then the df3 (electric) rows, each block in input order; a cell of a column
\* of the row's source frame keeps the source value, any other cell is null.
C2_OrderAndPadding ==
    pc = "concatenated" =>
        \A j \in 1..Len(concat_df.rows) :
            LET src == SourceOf(j)[1]
                i == SourceOf(j)[2]
            IN  /\ i \in 1..Len(src.rows)
                /\ DOMAIN concat_df.rows[j] = column_names(df1, df2, df3)
                /\ \A c \in column_names(df1, df2, df3) :
                      concat_df.rows[j][c] =
                          IF c \in ColSet(src) THEN src.rows[i][c] ELSE Null

C2_Witness ==
    /\ pc = "concatenated"
    /\ Len(df1.rows) = 2 /\ Len(df2.rows) = 2 /\ Len(df3.rows) = 2
    /\ df1.cols = <<"model">> /\ df2.cols = <<"model", "motor_kw">>
    /\ df3.cols = <<"model", "range1_km">>
    /\ concat_df.rows[1]["model"] = [table |-> "df1", row |-> 1, col |-> "model"]
    /\ concat_df.rows[1]["motor_kw"] = Null
    /\ concat_df.rows[4]["motor_kw"] = [table |-> "df2", row |-> 2, col |-> "motor_kw"]
    /\ concat_df.rows[6]["range1_km"] = [table |-> "df3", row |-> 2, col |-> "range1_km"]

----------------------------------------------------------------------------
(* rename_fuel_data_columns *)

\* A table, as pd.read_csv returns it, is [cols |-> sequence of labels,
\* rows |-> sequence of rows], a row being the sequence of its cells by column
\* position (labels may repeat after renaming, so rows are not keyed by label)
\* and a cell being Null or [str |-> its text].
Table(cols, rows) == [cols |-> cols, rows |-> rows]

NonNull(row) == Cardinality({c \in 1..Len(row) : row[c] # Null})

\* the positions kept of a sequence, in order
Pick(seq, keep) ==
    LET F[i \in 0..Len(seq)] ==
            IF i = 0 THEN <<>>
            ELSE IF i \in keep THEN Append(F[i - 1], seq[i]) ELSE F[i - 1]
    IN  F[Len(seq)]

\* DataFrame.dropna(thresh=n, axis=1): keep the columns with n non-null cells
dropna_columns(table, thresh) ==
    LET keep == {c \in 1..Len(table.cols) :
                    Cardinality({r \in 1..Len(table.rows) : table.rows[r][c] # Null})
                        >= thresh}
    IN  Table(Pick(table.cols, keep),
              [r \in 1..Len(table.rows) |-> Pick(table.rows[r], keep)])

\* DataFrame.dropna(thresh=n, axis=0): keep the rows with n non-null cells
dropna_rows(table, thresh) ==
    Table(table.cols, SelectSeq(table.rows, LAMBDA row : NonNull(row) >= thresh))

\* the end of the run of digits that starts at position i
RECURSIVE DigitsEnd(_, _)
DigitsEnd(str, i) ==
    IF i <= Len(str) /\ str[i] \in Digits THEN DigitsEnd(str, i + 1) ELSE i

\* re.sub(r"unnamed: \d*", "fuel consumption", str)
RECURSIVE ReSubFrom(_, _)
ReSubFrom(str, i) ==
    IF i > Len(str) THEN <<>>
    ELSE IF StartsAt(str, i, <<"u", "n", "n", "a", "m", "e", "d", ":", " ">>)
         THEN <<"f", "u", "e", "l", " ", "c", "o", "n", "s", "u", "m", "p", "t", "i", "o", "n">> \o ReSubFrom(str, DigitsEnd(str, i + Len(<<"u", "n", "n", "a", "m", "e", "d", ":", " ">>)))
         ELSE <<str[i]>> \o ReSubFrom(str, i + 1)

\* lines 188-193 with the substitution left out
cleaned_col_Unsubstituted(label) == label

\* lines 188-193, for one label
cleaned_col(label) ==
    IF Contains(label, <<"u", "n", "n", "a", "m", "e", "d">>) THEN ReSubFrom(label, 1) ELSE label

\* lines 196-199: str(item), and "" for "nan"
str_non_nan(cell) == IF cell = Null THEN <<>> ELSE cell.str

\* lines 204-209
new_col(itema, itemb) ==
    Replace(Replace(Replace(Lower(itema \o <<"_">> \o itemb), <<"*">>, <<>>), <<" ">>, <<>>),
            <<"#", "=", "h", "i", "g", "h", "o", "u", "t", "p", "u", "t", "e", "n", "g", "i", "n", "e">>, <<>>)

sample_df_col(table) ==
    LET dropped == dropna_rows(dropna_columns(table, 1), 1)
    IN  Table([i \in 1..Len(dropped.cols) |-> Lower(dropped.cols[i])], dropped.rows)

sample_df_no_footer(table) == dropna_rows(sample_df_col(table), 3)

\* .values[0] of an empty frame raises IndexError
rename_raises(table) == sample_df_no_footer(table).rows = <<>>

rename_fuel_data_columns(table) ==
    LET no_footer == sample_df_no_footer(table)
        new_cols == [i \in 1..Len(no_footer.cols) |->
                        new_col(cleaned_col(no_footer.cols[i]),
                                str_non_nan(no_footer.rows[1][i]))]
    IN  Table(new_cols, Tail(no_footer.rows))

MaxCsvRows == 3

\* header rows as pd.read_csv labels them, a blank header cell being labelled
\* "Unnamed: <its position>"; the last list holds labels the government files
\* do not use (a tab, a spaced-out "Un named")
HeaderLists == {
    << <<"M", "o", "d", "e", "l">>, <<"F", "u", "e", "l", "*">>, <<"F", "u", "e", "l", " ", "C", "o", "n", "s", "u", "m", "p", "t", "i", "o", "n">>, <<"U", "n", "n", "a", "m", "e", "d", ":", " ", "3">> >>,
    << <<"M", "o", "d", "e", "l">>, <<"U", "n", "n", "a", "m", "e", "d", ":", " ", "1">>, <<"U", "n", "n", "a", "m", "e", "d", ":", " ", "1", "2">>, <<"C", "O", "2", " ", "E", "m", "i", "s", "s", "i", "o", "n", "s">> >>,
    << <<"M", "A", "K", "E">>, <<"V", "e", "h", "i", "c", "l", "e", " ", "C", "l", "a", "s", "s">>, <<"U", "n", "n", "a", "m", "e", "d", ":", " ", "2">> >>,
    << <<"M", "a", "k", "e", "\t">>, <<"U", "n", " ", "n", "a", "m", "e", "d">>, <<"U", "n", "n", "a", "m", "e", "d", ":", " ", "2">>, <<"U", "n", "n", "a", "m", "e", "d", ":", " ", "3">> >> }

\* the texts of a row's cells by column, in the style of the second header row
\* (UnitTexts) and of a data row (DataTexts)
UnitTexts == << <<"Y", "e", "a", "r">>, <<"T", "y", "p", "e", "*">>, <<"C", "i", "t", "y", " ", "(", "L", "/", "1", "0", "0", " ", "k", "m", ")">>, <<"#", " ", "=", " ", "h", "i", "g", "h", " ", "o", "u", "t", "p", "u", "t", " ", "e", "n", "g", "i", "n", "e">> >>
DataTexts == << <<"2", "0", "1", "5">>, <<"A", "S", "6">>, <<"U", "n", "*", "n", "a", "m", "e", "d">>, <<"9", ".", "5", "\t">> >>

\* a row of n cells whose first k cells hold text and whose others are empty
CsvRow(texts, n, k) ==
    [c \in 1..n |-> IF c <= k THEN [str |-> texts[((c - 1) % Len(texts)) + 1]] ELSE Null]

CsvRows(n) == {CsvRow(texts, n, k) : texts \in {UnitTexts, DataTexts}, k \in 0..n}

RECURSIVE RowLists(_, _)
RowLists(n, len) ==
    IF len = 0 THEN {<<>>}
    ELSE RowLists(n, len - 1)
         \cup {Append(rows, row) : rows \in RowLists(n, len - 1), row \in CsvRows(n)}

InitRename ==
    /\ pc = "rename_call"
    /\ \E cols \in HeaderLists : \E rows \in RowLists(Len(cols), MaxCsvRows) :
          df = Table(cols, rows)
    /\ final_df = Unbound
    /\ IdleScript /\ IdleKeywords /\ IdleConcat

\* lines 181-215, returning
RenameFuelDataColumns ==
    /\ pc = "rename_call"
    /\ ~rename_raises(df)
    /\ final_df' = rename_fuel_data_columns(df)
    /\ pc' = "renamed"
    /\ UNCHANGED <<df, scriptVars, keywordVars, concatVars>>

\* line 197 raising IndexError: no row has 3 non-null values
RenameRaises ==
    /\ pc = "rename_call"
    /\ rename_raises(df)
    /\ pc' = "rename_raised"
    /\ UNCHANGED <<df, final_df, scriptVars, keywordVars, concatVars>>

NextRename == RenameFuelDataColumns \/ RenameRaises

SpecRename == InitRename /\ [][NextRename]_vars

Whitespace == {" ", "\t", "\n", "\r"}

HasChar(str, chars) == \E i \in 1..Len(str) : str[i] \in chars

\* the input columns that are not fully empty, and the input rows with at
\* least 3 non-null values
FilledColumns == {c \in 1..Len(df.cols) : \E r \in 1..Len(df.rows) : df.rows[r][c] # Null}
DataRows == SelectSeq(df.rows, LAMBDA row : NonNull(row) >= 3)

ShapeKept ==
    /\ Len(final_df.cols) = Cardinality(FilledColumns)
    /\ final_df.rows = [r \in 1..(Len(DataRows) - 1) |-> Pick(DataRows[r + 1], FilledColumns)]

\* C4 as stated: for every accepted table, no output column name holds a
\* whitespace character, a '*' or "unnamed"; the output has one column per
\* input column that is not fully empty, and its rows are the input rows with
\* at least 3 non-null values minus the first, values unaltered.
C4_AsStated ==
    pc = "renamed" =>
        /\ \A i \in 1..Len(final_df.cols) :
              /\ ~HasChar(final_df.cols[i], Whitespace \cup {"*"})
              /\ ~Contains(final_df.cols[i], <<"u", "n", "n", "a", "m", "e", "d">>)
        /\ ShapeKept

\* what is left of a text once case, '*', spaces and the footnote token are gone
Squeezed(str) ==
    Replace(Replace(Replace(Lower(str), <<"*">>, <<>>), <<" ">>, <<>>),
            <<"#", "=", "h", "i", "g", "h", "o", "u", "t", "p", "u", "t", "e", "n", "g", "i", "n", "e">>, <<>>)

IsPlaceholder(label) ==
    /\ StartsAt(Lower(label), 1, <<"u", "n", "n", "a", "m", "e", "d", ":", " ">>)
    /\ \A i \in (Len(<<"u", "n", "n", "a", "m", "e", "d", ":", " ">>) + 1)..Len(label) : label[i] \in Digits

\* a text the normaliser is written for: no whitespace but spaces, and
\* "unnamed" spelled only by a label that is, in full, a pandas placeholder
SupportedText(str) ==
    /\ ~HasChar(str, Whitespace \ {" "})
    /\ ~Contains(Squeezed(str), <<"u", "n", "n", "a", "m", "e", "d">>)

SupportedInput ==
    /\ \A c \in FilledColumns : IsPlaceholder(df.cols[c]) \/ SupportedText(df.cols[c])
    /\ DataRows # <<>> =>
          \A c \in FilledColumns : DataRows[1][c] # Null => SupportedText(DataRows[1][c].str)

\* C4 amended: the names are free of whitespace, '*' and "unnamed" when the
\* header labels and first-row values are supported texts; the shape part
\* holds for every accepted table.
C4_Amended ==
    pc = "renamed" =>
        /\ SupportedInput =>
              \A i \in 1..Len(final_df.cols) :
                  /\ ~HasChar(final_df.cols[i], Whitespace \cup {"*"})
                  /\ ~Contains(final_df.cols[i], <<"u", "n", "n", "a", "m", "e", "d">>)
        /\ \A i \in 1..Len(final_df.cols) : ~HasChar(final_df.cols[i], {" ", "*"})
        /\ ShapeKept

C4_Witness ==
    /\ pc = "renamed"
    /\ SupportedInput
    /\ df.cols = << <<"M", "o", "d", "e", "l">>, <<"U", "n", "n", "a", "m", "e", "d", ":", " ", "1">>, <<"U", "n", "n", "a", "m", "e", "d", ":", " ", "1", "2">>, <<"C", "O", "2", " ", "E", "m", "i", "s", "s", "i", "o", "n", "s">> >>
    /\ Len(df.rows) = 3
    /\ NonNull(df.rows[1]) = 3 /\ NonNull(df.rows[2]) = 2 /\ NonNull(df.rows[3]) = 3
    /\ final_df.cols = << <<"m", "o", "d", "e", "l", "_", "y", "e", "a", "r">>, <<"f", "u", "e", "l", "c", "o", "n", "s", "u", "m", "p", "t", "i", "o", "n", "_", "t", "y", "p", "e">>, <<"f", "u", "e", "l", "c", "o", "n", "s", "u", "m", "p", "t", "i", "o", "n", "_", "c", "i", "t", "y", "(", "l", "/", "1", "0", "0", "k", "m", ")">> >>
    /\ Len(final_df.rows) = 1

----------------------------------------------------------------------------
(* The script: lines 370-507 *)

\* requests.get either answers or raises one of the exceptions the two
\* functions catch (lines 124-131 and 151-158)
NetworkErrors == {"HTTPError", "ConnectionError", "Timeout", "RequestException"}
CatalogOutcomes == {"ok", "bad_status", "not_json"} \cup NetworkErrors
RawOutcomes == {"ok"} \cup NetworkErrors

\* what the except clause of each exception prints
Printed(error) ==
    CASE error = "HTTPError" -> "Http Error:"
      [] error = "ConnectionError" -> "Error Connecting:"
      [] error = "Timeout" -> "Timeout Error:"
      [] error = "RequestException" -> "OOps: Something Else"

\* lines 95-131 with the exit swallowed: the empty frame of line 121 returned
fuel_consumption_metadata_extraction_NoExit(outcome, entries) ==
    IF outcome = "ok"
    THEN [result |-> [rows |-> entries], exits |-> FALSE, prints |-> <<>>]
    ELSE IF outcome \in NetworkErrors
         THEN [result |-> NoneValue, exits |-> FALSE, prints |-> <<Printed(outcome)>>]
         ELSE [result |-> [rows |-> <<>>], exits |-> FALSE,
               prints |-> <<"Error - check the url is still valid">>]

\* lines 95-131: the rows returned, whether sys.exit(1) was raised (SystemExit
\* is no RequestException, so no except clause catches it), what was printed
fuel_consumption_metadata_extraction(outcome, entries) ==
    IF outcome = "ok"
    THEN [result |-> [rows |-> entries], exits |-> FALSE, prints |-> <<>>]
    ELSE IF outcome \in NetworkErrors
         THEN [result |-> NoneValue, exits |-> FALSE, prints |-> <<Printed(outcome)>>]
         ELSE [result |-> NoneValue, exits |-> TRUE,
               prints |-> <<"Error - check the url is still valid">>]

\* lines 144-158: the response, or None after a caught exception
extract_raw_data(url, outcome) ==
    IF outcome = "ok"
    THEN [result |-> [text |-> url], prints |-> <<>>]
    ELSE [result |-> NoneValue, prints |-> <<Printed(outcome)>>]

\* the model names in the CSV behind each url, one row per name
CsvModels == <<
    << <<"F", "-", "1", "5", "0", " ", "F", "F", "V">>, <<"C", "i", "v", "i", "c">> >>,
    << <<"S", "i", "l", "v", "e", "r", "a", "d", "o", " ", "4", "W", "D", "/", "4", "X", "4">> >>,
    << <<"O", "u", "t", "b", "a", "c", "k", " ", "A", "W", "D">>, <<"R", "A", "V", "4">> >>,
    << <<"L", "e", "a", "f">> >>,
    << <<"P", "r", "i", "u", "s", " ", "P", "r", "i", "m", "e">>, <<"V", "o", "l", "t">> >>,
    << <<"I", "o", "n", "i", "q">> >> >>

CsvOf(url) == CsvModels[((url - 1) % Len(CsvModels)) + 1]

\* lines 394-395: the cleaned frame of the CSV at url, its model column
\* lowercased (line 243); of the CSV's columns the model keeps this one
read_and_clean_df(url) ==
    Frame(<<"model.1_">>,
          [i \in 1..Len(CsvOf(url)) |-> [c \in {"model.1_"} |-> [str |-> Lower(CsvOf(url)[i])]]])

\* DataFrame.rename(columns={old: new})
RenameColumn(frame, old, new) ==
    LET to(c) == IF c = old THEN new ELSE c
        from(c) == IF c = new /\ old \in ColSet(frame) THEN old ELSE c
        cols == [k \in 1..Len(frame.cols) |-> to(frame.cols[k])]
    IN  Frame(cols, [i \in 1..Len(frame.rows) |->
                        [c \in {cols[k] : k \in 1..Len(cols)} |-> frame.rows[i][from(c)]]])

\* frame[name] = values: a new last column, or an existing column replaced
SetColumn(frame, name, values) ==
    Frame(IF name \in ColSet(frame) THEN frame.cols ELSE Append(frame.cols, name),
          [i \in 1..Len(frame.rows) |->
              [c \in ColSet(frame) \cup {name} |->
                  IF c = name THEN values[i] ELSE frame.rows[i][c]]])

\* range(0, len(frame)): ids that start at 0
IdRange_FromZero(frame) == [i \in 1..Len(frame.rows) |-> [int |-> i - 1]]

\* range(1, len(frame) + 1)
IdRange(frame) == [i \in 1..Len(frame.rows) |-> [int |-> i]]

Constant(frame, label) == [i \in 1..Len(frame.rows) |-> [label |-> label]]

\* lines 406-433 and 442-464: rename, id, vehicle_type
TaggedCategory(frame, vehicle_type) ==
    SetColumn(SetColumn(RenameColumn(frame, "model.1_", "model"), "id",
                        IdRange(RenameColumn(frame, "model.1_", "model"))),
              "vehicle_type", Constant(frame, vehicle_type))

\* lines 467-469
WithWheelDrive(frame) ==
    SetColumn(frame, "type_of_wheel_drive",
              [i \in 1..Len(frame.rows) |->
                  [label |-> convert_model_key_words(frame.rows[i]["model.1_"].str, model_dict)]])

\* pd.concat(list_of_frames), line 473
RECURSIVE pd_concat_list(_)
pd_concat_list(frames) ==
    IF Len(frames) = 1 THEN frames[1]
    ELSE pd_concat(pd_concat_list(SubSeq(frames, 1, Len(frames) - 1)), frames[Len(frames)])

\* the branch of lines 384, 398, 434 and 465 a dataset name takes
Branch(name) ==
    IF Contains(name, <<"O", "r", "i", "g", "i", "n", "a", "l">>) THEN "skipped"
    ELSE IF Contains(name, <<"h", "y", "b", "r", "i", "d">>) THEN "hybrid"
    ELSE IF Contains(name, <<"e", "l", "e", "c", "t", "r", "i", "c">>) /\ ~Contains(name, <<"h", "y", "b", "r", "i", "d">>) THEN "electric"
    ELSE "fuel-only"

TableNames == {"fuel", "electric", "hybrid", "all_vehicles"}

\* DROP TABLE IF EXISTS t (line 343)
DropTableIfExists(database, table_name) == [database EXCEPT ![table_name] = Absent]

\* CREATE TABLE t AS SELECT * FROM frame (lines 344-346), t being absent
CreateTableAs(database, table_name, frame) == [database EXCEPT ![table_name] = frame]

\* lines 343-346 in append mode: no DROP, the rows added to a table that exists
create_table_AppendMode(database, table_name, frame) ==
    IF database[table_name] = Absent
    THEN [database EXCEPT ![table_name] = frame]
    ELSE [database EXCEPT ![table_name] =
            Frame(frame.cols, database[table_name].rows \o frame.rows)]

\* lines 343-346, both statements succeeding
create_table(database, table_name, frame) ==
    CreateTableAs(DropTableIfExists(database, table_name), table_name, frame)

MaxCatalog == 5

DatasetNames == { <<"O", "r", "i", "g", "i", "n", "a", "l">>, <<"F", "u", "e", "l">>,
                  <<"h", "y", "b", "r", "i", "d", " ", "e", "l", "e", "c", "t", "r", "i", "c">>, <<"e", "l", "e", "c", "t", "r", "i", "c">> }

RECURSIVE NameLists(_)
NameLists(len) ==
    IF len = 0 THEN {<<>>}
    ELSE NameLists(len - 1)
         \cup {Append(names, name) : names \in NameLists(len - 1), name \in DatasetNames}

\* the catalog rows: the entry at position u is served from url u
Catalogs ==
    {[u \in 1..Len(names) |-> [name |-> names[u], url |-> u]] : names \in NameLists(MaxCatalog)}

StaleFrame ==
    Frame(<<"model", "id">>, <<[model |-> [str |-> <<"s", "t", "a", "l", "e">>], id |-> [int |-> 7]]>>)

FreshDatabase == [t \in TableNames |-> Absent]

\* what a previous run, or none, left in the database file
PriorDatabases == {
    FreshDatabase,
    [t \in TableNames |-> IF t \in {"fuel", "hybrid"} THEN StaleFrame ELSE Absent] }

InitScript ==
    /\ pc = "fetch"
    /\ catalog \in Catalogs
    /\ catalog_outcome = "none"
    /\ data_entries_english = Unbound
    /\ item = 0
    /\ fuel_based_df = <<>>
    /\ hybrid_df = Unbound /\ electric_df = Unbound /\ all_vehicles_df = Unbound
    /\ db \in PriorDatabases
    /\ prev_db = db
    /\ con = "none"
    /\ exit_status = Running
    /\ uncaught = "none"
    /\ stdout = <<>>
    /\ downloaded = <<>>
    /\ run = 1

Init == InitScript /\ IdleKeywords /\ IdleRename /\ IdleConcat

\* an exception nothing catches: traceback, exit status 1
Dies(exception) ==
    /\ pc' = "exited"
    /\ uncaught' = exception
    /\ exit_status' = 1

\* a re-run is served the responses of the run before it
Served(outcome) == run = 2 => outcome = "ok"

\* line 379
FetchMetadata ==
    /\ pc = "fetch"
    /\ \E outcome \in CatalogOutcomes :
          LET got == fuel_consumption_metadata_extraction(outcome, catalog)
          IN  /\ Served(outcome)
              /\ catalog_outcome' = outcome
              /\ stdout' = stdout \o got.prints
              /\ IF got.exits
                 THEN Dies("SystemExit") /\ UNCHANGED <<data_entries_english, item>>
                 ELSE /\ data_entries_english' = got.result
                      /\ item' = 1
                      /\ pc' = "loop"
                      /\ UNCHANGED <<uncaught, exit_status>>
    /\ UNCHANGED <<catalog, fuel_based_df, hybrid_df, electric_df, all_vehicles_df,
                   db, con, downloaded, run, prev_db,
                   keywordVars, renameVars, concatVars>>

\* line 381 on None: AttributeError
IterateNone ==
    /\ pc = "loop"
    /\ data_entries_english = NoneValue
    /\ Dies("AttributeError")
    /\ UNCHANGED <<catalog, catalog_outcome, data_entries_english, item, fuel_based_df,
                   hybrid_df, electric_df, all_vehicles_df, db, con, stdout,
                   downloaded, run, prev_db, keywordVars, renameVars, concatVars>>

AtDataset ==
    /\ pc = "loop"
    /\ data_entries_english # NoneValue
    /\ item <= Len(data_entries_english.rows)

\* lines 384-385
SkipOriginal ==
    /\ AtDataset
    /\ Branch(data_entries_english.rows[item].name) = "skipped"
    /\ item' = item + 1
    /\ UNCHANGED <<pc, catalog, catalog_outcome, data_entries_english, fuel_based_df,
                   hybrid_df, electric_df, all_vehicles_df, db, con, exit_status,
                   uncaught, stdout, downloaded, run, prev_db,
                   keywordVars, renameVars, concatVars>>

\* lines 391-394 when extract_raw_data returned None: .text raises AttributeError
RetrieveNothing ==
    /\ AtDataset
    /\ Branch(data_entries_english.rows[item].name) # "skipped"
    /\ \E outcome \in NetworkErrors :
          LET got == extract_raw_data(data_entries_english.rows[item].url, outcome)
          IN  /\ Served(outcome)
              /\ stdout' = stdout \o got.prints
    /\ downloaded' = Append(downloaded, data_entries_english.rows[item].url)
    /\ Dies("AttributeError")
    /\ UNCHANGED <<catalog, catalog_outcome, data_entries_english, item, fuel_based_df,
                   hybrid_df, electric_df, all_vehicles_df, db, con, run, prev_db,
                   keywordVars, renameVars, concatVars>>

\* lines 388-470: one dataset retrieved, cleaned and filed under its category
ProcessDataset ==
    /\ AtDataset
    /\ Branch(data_entries_english.rows[item].name) # "skipped"
    /\ LET entry == data_entries_english.rows[item]
           got == extract_raw_data(entry.url, "ok")
           cleaned == read_and_clean_df(got.result.text)
       IN  /\ downloaded' = Append(downloaded, entry.url)
           /\ CASE Branch(entry.name) = "hybrid" ->
                     /\ hybrid_df' = TaggedCategory(cleaned, "hybrid")
                     /\ UNCHANGED <<electric_df, fuel_based_df>>
                [] Branch(entry.name) = "electric" ->
                     /\ electric_df' = TaggedCategory(cleaned, "electric")
                     /\ UNCHANGED <<hybrid_df, fuel_based_df>>
                [] Branch(entry.name) = "fuel-only" ->
                     /\ fuel_based_df' = Append(fuel_based_df, WithWheelDrive(cleaned))
                     /\ UNCHANGED <<hybrid_df, electric_df>>
    /\ item' = item + 1
    /\ UNCHANGED <<pc, catalog, catalog_outcome, data_entries_english, all_vehicles_df,
                   db, con, exit_status, uncaught, stdout, run, prev_db,
                   keywordVars, renameVars, concatVars>>

\* lines 473-494; pd.concat([]) raises ValueError
ConcatFuel ==
    /\ pc = "loop"
    /\ data_entries_english # NoneValue
    /\ item > Len(data_entries_english.rows)
    /\ IF fuel_based_df = <<>>
       THEN Dies("ValueError") /\ UNCHANGED fuel_based_df
       ELSE /\ fuel_based_df' =
                  LET renamed == RenameColumn(pd_concat_list(fuel_based_df), "model.1_", "model")
                  IN  SetColumn(SetColumn(renamed, "id", IdRange(renamed)),
                                "vehicle_type", Constant(renamed, "fuel-only"))
            /\ pc' = "all_vehicles"
            /\ UNCHANGED <<uncaught, exit_status>>
    /\ UNCHANGED <<catalog, catalog_outcome, data_entries_english, item, hybrid_df,
                   electric_df, all_vehicles_df, db, con, stdout, downloaded, run,
                   prev_db, keywordVars, renameVars, concatVars>>

\* line 497; a category no dataset fell in leaves its name unbound: NameError
ConcatAll ==
    /\ pc = "all_vehicles"
    /\ IF hybrid_df = Unbound \/ electric_df = Unbound
       THEN Dies("NameError") /\ UNCHANGED all_vehicles_df
       ELSE /\ \E order \in Orders(column_names(fuel_based_df, hybrid_df, electric_df)) :
                  all_vehicles_df' =
                      concatenate_dataframes(fuel_based_df, hybrid_df, electric_df, order)
            /\ pc' = "connect"
            /\ UNCHANGED <<uncaught, exit_status>>
    /\ UNCHANGED <<catalog, catalog_outcome, data_entries_english, item, fuel_based_df,
                   hybrid_df, electric_df, db, con, stdout, downloaded, run, prev_db,
                   keywordVars, renameVars, concatVars>>

\* lines 500-507 and 359
Connect ==
    /\ pc = "connect"
    /\ con' = "open"
    /\ pc' = "create_fuel"
    /\ UNCHANGED <<catalog, catalog_outcome, data_entries_english, item, fuel_based_df,
                   hybrid_df, electric_df, all_vehicles_df, db, exit_status, uncaught,
                   stdout, downloaded, run, prev_db, keywordVars, renameVars, concatVars>>

\* one call of create_table (lines 362-365): both statements run, or one of
\* them raises duckdb.Error, which nothing catches
CreateTable(at, table_name, frame, then) ==
    /\ pc = at
    /\ con = "open"
    /\ \E failing \in {"none", "drop", "create"} :
          /\ db' = CASE failing = "none" -> create_table(db, table_name, frame)
                     [] failing = "drop" -> db
                     [] failing = "create" -> DropTableIfExists(db, table_name)
          /\ IF failing = "none"
             THEN pc' = then /\ UNCHANGED <<uncaught, exit_status>>
             ELSE Dies("duckdb.Error")
    /\ UNCHANGED <<catalog, catalog_outcome, data_entries_english, item, fuel_based_df,
                   hybrid_df, electric_df, all_vehicles_df, con, stdout, downloaded,
                   run, prev_db, keywordVars, renameVars, concatVars>>

CreateFuel == CreateTable("create_fuel", "fuel", fuel_based_df, "create_electric")
CreateElectric == CreateTable("create_electric", "electric", electric_df, "create_hybrid")
CreateHybrid == CreateTable("create_hybrid", "hybrid", hybrid_df, "create_all_vehicles")
CreateAllVehicles == CreateTable("create_all_vehicles", "all_vehicles", all_vehicles_df, "close")

\* line 367, and the script ends
Close ==
    /\ pc = "close"
    /\ con' = "closed"
    /\ pc' = "done"
    /\ exit_status' = 0
    /\ UNCHANGED <<catalog, catalog_outcome, data_entries_english, item, fuel_based_df,
                   hybrid_df, electric_df, all_vehicles_df, db, uncaught, stdout,
                   downloaded, run, prev_db, keywordVars, renameVars, concatVars>>

Next ==
    \/ FetchMetadata \/ IterateNone \/ SkipOriginal \/ RetrieveNothing
    \/ ProcessDataset \/ ConcatFuel \/ ConcatAll \/ Connect
    \/ CreateFuel \/ CreateElectric \/ CreateHybrid \/ CreateAllVehicles \/ Close

Spec == Init /\ [][Next]_vars

\* the script run again on the same catalog and CSVs, the database file kept
Rerun ==
    /\ pc = "done"
    /\ run = 1
    /\ run' = 2
    /\ prev_db' = db
    /\ pc' = "fetch"
    /\ data_entries_english' = Unbound
    /\ item' = 0
    /\ fuel_based_df' = <<>>
    /\ hybrid_df' = Unbound /\ electric_df' = Unbound /\ all_vehicles_df' = Unbound
    /\ con' = "none"
    /\ exit_status' = Running
    /\ stdout' = <<>>
    /\ downloaded' = <<>>
    /\ UNCHANGED <<catalog, catalog_outcome, db, uncaught,
                   keywordVars, renameVars, concatVars>>

MaxRerunCatalog == 4

InitRerun == Init /\ db = FreshDatabase /\ Len(catalog) <= MaxRerunCatalog

NextRerun ==
    \/ FetchMetadata \/ IterateNone \/ SkipOriginal \/ RetrieveNothing
    \/ ProcessDataset \/ ConcatFuel \/ ConcatAll \/ Connect
    \/ CreateFuel \/ CreateElectric \/ CreateHybrid \/ CreateAllVehicles \/ Close
    \/ Rerun

SpecRerun == InitRerun /\ [][NextRerun]_vars

----------------------------------------------------------------------------
(* Claims about the script *)

NetworkMessages == {Printed(e) : e \in NetworkErrors}

\* C5: once a network error of the Metadata Fetcher or the Raw Retriever has
\* been caught and logged, the run raises no exception: it goes on as a run
\* that produced no data.
C5_NetworkErrorContained ==
    (\E i \in 1..Len(stdout) : stdout[i] \in NetworkMessages) =>
        uncaught = "none" /\ exit_status # 1

C7_Idempotent == (run = 2 /\ pc = "done") => db = prev_db

CurrentFrames ==
    [t \in TableNames |->
        CASE t = "fuel" -> fuel_based_df
          [] t = "electric" -> electric_df
          [] t = "hybrid" -> hybrid_df
          [] t = "all_vehicles" -> all_vehicles_df]

\* C8: when init_duck_db has completed, each of the four tables exists and is
\* exactly this run's in-memory frame, whatever the file held before.
C8_TablesReplaced ==
    pc = "done" => \A t \in TableNames : db[t] # Absent /\ db[t] = CurrentFrames[t]

C8_Witness ==
    /\ pc = "done"
    /\ prev_db["fuel"] = StaleFrame /\ prev_db["electric"] = Absent
    /\ db["fuel"] = fuel_based_df /\ db["fuel"] # StaleFrame
    /\ db["electric"] = electric_df

\* C9: on every path out of init_duck_db the connection it opened is closed.
C9_ConnectionReleased ==
    (pc \in {"done", "exited"} /\ con # "none") => con = "closed"

\* the catalog positions whose dataset falls in a category, in catalog order,
\* read off the names as the claim words it
ClaimedCategory(name) ==
    IF Contains(name, <<"h", "y", "b", "r", "i", "d">>) THEN "hybrid"
    ELSE IF Contains(name, <<"e", "l", "e", "c", "t", "r", "i", "c">>) THEN "electric"
    ELSE "fuel-only"

PositionsOf(category) ==
    SelectSeq([u \in 1..Len(catalog) |-> u],
              LAMBDA u : /\ ~Contains(catalog[u].name, <<"O", "r", "i", "g", "i", "n", "a", "l">>)
                         /\ ClaimedCategory(catalog[u].name) = category)

\* the model cells of the CSVs at the given catalog positions, in order
RECURSIVE ModelsAt(_)
ModelsAt(positions) ==
    IF positions = <<>> THEN <<>>
    ELSE [i \in 1..Len(CsvOf(catalog[Head(positions)].url)) |->
              [str |-> Lower(CsvOf(catalog[Head(positions)].url)[i])]]
         \o ModelsAt(Tail(positions))

Last(seq) == seq[Len(seq)]

\* the table holds exactly these model cells, in order, numbered 1..N
Holds(table, models, vehicle_type) ==
    /\ Len(table.rows) = Len(models)
    /\ \A i \in 1..Len(models) :
          /\ table.rows[i]["model"] = models[i]
          /\ table.rows[i]["id"] = [int |-> i]
          /\ table.rows[i]["vehicle_type"] = [label |-> vehicle_type]

\* C10: the persisted fuel table holds the rows of every fuel-only dataset in
\* catalog order, numbered 1..N over all of them; the hybrid and the electric
\* table hold the rows of the last dataset of their category only, numbered
\* 1..N; every (vehicle_type, id) pair of all_vehicles is unique.
C10_AccumulateAndOverwrite ==
    pc = "done" =>
        /\ Holds(db["fuel"], ModelsAt(PositionsOf("fuel-only")), "fuel-only")
        /\ Holds(db["hybrid"], ModelsAt(<<Last(PositionsOf("hybrid"))>>), "hybrid")
        /\ Holds(db["electric"], ModelsAt(<<Last(PositionsOf("electric"))>>), "electric")
        /\ \A i, j \in 1..Len(db["all_vehicles"].rows) :
              ( /\ db["all_vehicles"].rows[i]["vehicle_type"] = db["all_vehicles"].rows[j]["vehicle_type"]
                /\ db["all_vehicles"].rows[i]["id"] = db["all_vehicles"].rows[j]["id"] )
              => i = j

C10_Witness ==
    /\ pc = "done"
    /\ PositionsOf("fuel-only") = <<1, 3>>
    /\ PositionsOf("hybrid") = <<2, 4>>
    /\ PositionsOf("electric") = <<5>>
    /\ Len(db["fuel"].rows) = 4
    /\ Len(db["hybrid"].rows) = 1
    /\ db["hybrid"].rows[1]["model"] = [str |-> <<"l", "e", "a", "f">>]
    /\ Len(db["all_vehicles"].rows) = 7

=============================================================================
